---- MODULE Spec2Model ----
(***************************************************************************)
(* Model of homeassistant/components/flux_led/select.py: the four select   *)
(* entities of the Magic Home (flux_led) integration, the platform setup   *)
(* that registers them, and the device client they forward to.             *)
(*                                                                         *)
(* Strings are sequences of one-character strings, so that the display     *)
(* name transform is computed character by character.  A coroutine is a    *)
(* record in the bag "calls"; its field pc is the coroutine's position.    *)
(*                                                                         *)
(* The device client (flux_led's AIOWifiLedBulb) is external: a setter     *)
(* call is issued, and later completes (the client then reports the value  *)
(* set) or raises; DeviceReport is any other change of the state the       *)
(* client reports.  A Switch always reports a channel-1 power-restore      *)
(* state, which is what the assertions of                                  *)
(* _async_set_current_option_from_device expect.  The reload an            *)
(* operating-mode selection requests is recorded, not carried out.         *)
(***************************************************************************)
EXTENDS Bags, FiniteSets, Integers, Sequences, TLC

VARIABLES
  setup,                \* "start" before async_setup_entry has run, "done" after
  device,               \* the device client's reported state (coordinator.device)
  added,                \* the argument of every async_add_entities call, in order
  name_to_state,        \* FluxPowerStateSelect._name_to_state
  attr_options,         \* FluxPowerStateSelect._attr_options
  attr_current_option,  \* FluxPowerStateSelect._attr_current_option
  ha_state,             \* the power-restore entity's state as last written to the host
  calls,                \* bag of async_select_option coroutines, running or finished
  selected              \* history: async_select_option has been called at least once

vars == <<setup, device, added, name_to_state, attr_options,
          attr_current_option, ha_state, calls, selected>>

(***************************************************************************)
(* Bounds                                                                  *)
(***************************************************************************)
\* number of async_select_option coroutines that exist at the same time
MaxCalls == 2

(***************************************************************************)
(* Strings                                                                 *)
(***************************************************************************)
UpperCase == <<"A","B","C","D","E","F","G","H","I","J","K","L","M",
               "N","O","P","Q","R","S","T","U","V","W","X","Y","Z">>
LowerCase == <<"a","b","c","d","e","f","g","h","i","j","k","l","m",
               "n","o","p","q","r","s","t","u","v","w","x","y","z">>

IsUpper(ch) == \E i \in 1..Len(UpperCase) : UpperCase[i] = ch
IsLower(ch) == \E i \in 1..Len(LowerCase) : LowerCase[i] = ch
IsCased(ch) == IsUpper(ch) \/ IsLower(ch)

IndexIn(ch, s) == CHOOSE i \in 1..Len(s) : s[i] = ch
ToUpper(ch) == IF IsLower(ch) THEN UpperCase[IndexIn(ch, LowerCase)] ELSE ch
ToLower(ch) == IF IsUpper(ch) THEN LowerCase[IndexIn(ch, UpperCase)] ELSE ch

\* str.replace(old, new) for one-character old and new
replace(s, old, new) == [i \in 1..Len(s) |-> IF s[i] = old THEN new ELSE s[i]]

\* str.title(): a cased character that follows a cased character is
\* lowercased, any other cased character is uppercased
title(s) ==
  [i \in 1..Len(s) |->
     IF i > 1 /\ IsCased(s[i-1]) THEN ToLower(s[i]) ELSE ToUpper(s[i])]

\* the prefix of s before the first occurrence of ch (all of s if none)
Before(s, ch) ==
  IF \E i \in 1..Len(s) : s[i] = ch
  THEN SubSeq(s, 1, (CHOOSE i \in 1..Len(s) :
                        s[i] = ch /\ \A j \in 1..(i-1) : s[j] # ch) - 1)
  ELSE s

human_readable_first_word(const_option) == title(Before(const_option, "_"))

_human_readable_option(const_option) == title(replace(const_option, "_", " "))

(***************************************************************************)
(* flux_led.protocol.PowerRestoreState and flux_led.base_device.DeviceType *)
(***************************************************************************)
\* the members, in definition order
PowerRestoreState == <<"ALWAYS_OFF", "ALWAYS_ON", "LAST_STATE">>

Members == {PowerRestoreState[i] : i \in 1..Len(PowerRestoreState)}

\* member.name
MemberName(m) ==
  CASE m = "ALWAYS_OFF" -> <<"A","L","W","A","Y","S","_","O","F","F">>
    [] m = "ALWAYS_ON"  -> <<"A","L","W","A","Y","S","_","O","N">>
    [] m = "LAST_STATE" -> <<"L","A","S","T","_","S","T","A","T","E">>

DeviceType == {"Switch", "Bulb"}

None == <<"None">>

\* the lists a device client can report; <<>> is an empty or absent list
OperatingModes == <<<<"R","G","B">>, <<"R","G","B","W">>>>
Wirings        == <<<<"G","R","B">>, <<"B","R","G">>>>
ICTypes        == <<<<"W","S","2","8","1","1">>, <<"S","M","1","6">>>>

Elems(s) == {s[i] : i \in 1..Len(s)}

Current(list) == IF list = <<>> THEN {None} ELSE Elems(list)

Devices ==
  { d \in [device_type     : DeviceType,
           operating_modes : {<<>>, OperatingModes},
           wirings         : {<<>>, Wirings},
           ic_types        : {<<>>, ICTypes},
           operating_mode  : Elems(OperatingModes) \cup {None},
           wiring          : Elems(Wirings) \cup {None},
           ic_type         : Elems(ICTypes) \cup {None},
           channel1        : Members \cup {"None"}] :
      /\ d.operating_mode \in Current(d.operating_modes)
      /\ d.wiring \in Current(d.wirings)
      /\ d.ic_type \in Current(d.ic_types)
      /\ d.channel1 = "None" <=> d.device_type # "Switch" }

\* a device client before any change of its settings: every current value is
\* the first one of its list
First(list) == IF list = <<>> THEN None ELSE list[1]

InitialDevices ==
  { d \in Devices :
      /\ d.operating_mode = First(d.operating_modes)
      /\ d.wiring = First(d.wirings)
      /\ d.ic_type = First(d.ic_types)
      /\ d.channel1 \in {"None", PowerRestoreState[1]} }

\* The devices the selections are explored on: a switch that reports at most
\* one settings list, or a device that is no switch and reports any lists.
\* Every pair of entity kinds occurs together on one of them.  The setup is
\* explored on every device, under SpecSetup.
SelectDevices ==
  { d \in InitialDevices :
      d.device_type = "Switch" =>
        \A e, f \in {"operating_modes", "wirings", "ic_types"} :
          (d[e] # <<>> /\ d[f] # <<>>) => e = f }

\* coordinator.entry.entry_id
EntryId == "entry_id"

(***************************************************************************)
(* dict and list helpers                                                   *)
(***************************************************************************)
\* dict(zip(ks, vs)): a later item replaces the value of an equal key
DictOf(ks, vs) ==
  [k \in Elems(ks) |->
     vs[CHOOSE i \in 1..Len(ks) :
          ks[i] = k /\ \A j \in (i+1)..Len(ks) : ks[j] # k]]

\* list(dict(zip(ks, vs))): the keys in the order of their first insertion
RECURSIVE KeysOf(_)
KeysOf(ks) ==
  IF ks = <<>> THEN <<>>
  ELSE LET front == KeysOf(SubSeq(ks, 1, Len(ks) - 1))
           k     == ks[Len(ks)]
       IN IF k \in Elems(front) THEN front ELSE Append(front, k)

\* the display name of every member
DisplayNames == [m \in Members |-> _human_readable_option(MemberName(m))]

DisplayName(m) == DisplayNames[m]

(***************************************************************************)
(* async_setup_entry                                                       *)
(***************************************************************************)
Start0 ==
  /\ setup = "start"
  /\ added = <<>>
  /\ name_to_state = <<>>
  /\ attr_options = <<>>
  /\ attr_current_option = None
  /\ ha_state = None
  /\ calls = EmptyBag
  /\ selected = FALSE

Init == device \in SelectDevices /\ Start0

InitSetup == device \in Devices /\ Start0

\* SetupEntities with the wiring entity guarded by the IC-type list
SetupEntities_CopyPaste(d) ==
     (IF d.device_type = "Switch" THEN <<"power">> ELSE <<>>)
  \o (IF d.operating_modes # <<>> THEN <<"operating_mode">> ELSE <<>>)
  \o (IF d.ic_types # <<>> THEN <<"wiring">> ELSE <<>>)
  \o (IF d.ic_types # <<>> THEN <<"ic_type">> ELSE <<>>)

\* the list "entities" that async_setup_entry builds for device d
SetupEntities(d) ==
     (IF d.device_type = "Switch" THEN <<"power">> ELSE <<>>)
  \o (IF d.operating_modes # <<>> THEN <<"operating_mode">> ELSE <<>>)
  \o (IF d.wirings # <<>> THEN <<"wiring">> ELSE <<>>)
  \o (IF d.ic_types # <<>> THEN <<"ic_type">> ELSE <<>>)

\* FluxPowerStateSelect._async_set_current_option_from_device: the value it
\* stores in _attr_current_option (the assertions hold: channel1 is a member)
OptionFromDevice(d) == _human_readable_option(MemberName(d.channel1))

\* FluxPowerStateSelect.__init__
PowerStateSelectInit ==
  LET keys == [i \in 1..Len(PowerRestoreState) |-> DisplayName(PowerRestoreState[i])]
  IN /\ name_to_state' = DictOf(keys, PowerRestoreState)
     /\ attr_options' = KeysOf(keys)
     /\ attr_current_option' = OptionFromDevice(device)

async_setup_entry ==
  /\ setup = "start"
  /\ setup' = "done"
  /\ LET entities == SetupEntities(device)
     IN /\ IF "power" \in Elems(entities)
           THEN PowerStateSelectInit
           ELSE UNCHANGED <<name_to_state, attr_options, attr_current_option>>
        /\ added' = IF entities # <<>> THEN Append(added, entities) ELSE added
  /\ UNCHANGED <<device, ha_state, calls, selected>>

\* the entities the host framework holds
Registered == UNION {Elems(added[i]) : i \in 1..Len(added)}

(***************************************************************************)
(* The select entities' properties                                         *)
(***************************************************************************)
ICTypeOptions == device.ic_types
ICTypeCurrentOption_wiring == device.wiring
ICTypeCurrentOption == device.ic_type
WiringsOptions == device.wirings
WiringsCurrentOption == device.wiring
OperatingModesOptions == device.operating_modes
OperatingModesCurrentOption == device.operating_mode

(***************************************************************************)
(* async_select_option                                                     *)
(***************************************************************************)
\* a coroutine that has just been called
NewCall(entity, option) ==
  [entity |-> entity, option |-> option, pc |-> "called",
   setter |-> <<>>, client |-> "", raised |-> "", reloads |-> <<>>,
   writes |-> <<>>]

CanCall(entity) ==
  /\ setup = "done"
  /\ entity \in Registered
  /\ BagCardinality(calls) < MaxCalls

Start(c) == calls' = calls (+) SetToBag({c}) /\ selected' = TRUE
Move(c, d) ==
  /\ calls' = (calls (-) SetToBag({c})) (+) SetToBag({d})
  /\ UNCHANGED selected

\* the strings the host may pass to the power-restore entity: its options and
\* a string that is not one of them
PowerInputs == Elems(attr_options) \cup {MemberName("ALWAYS_ON")}

\* PowerSelectOption storing the chosen option before the device has answered
PowerSelectOption_Optimistic(option) ==
  /\ CanCall("power")
  /\ IF option \in DOMAIN name_to_state
     THEN /\ Start([NewCall("power", option) EXCEPT
                      !.pc = "awaiting",
                      !.setter = <<[param |-> "channel1",
                                    value |-> name_to_state[option]]>>])
          /\ attr_current_option' = option
     ELSE /\ Start([NewCall("power", option) EXCEPT
                      !.pc = "failed", !.raised = "KeyError"])
          /\ UNCHANGED attr_current_option
  /\ UNCHANGED <<setup, device, added, name_to_state, attr_options, ha_state>>

\* PowerSelectOption looking the option up with a default member
PowerSelectOption_Default(option) ==
  /\ CanCall("power")
  /\ Start([NewCall("power", option) EXCEPT
              !.pc = "awaiting",
              !.setter = <<[param |-> "channel1",
                            value |-> IF option \in DOMAIN name_to_state
                                      THEN name_to_state[option]
                                      ELSE PowerRestoreState[3]]>>])
  /\ UNCHANGED <<setup, device, added, name_to_state, attr_options,
                 attr_current_option, ha_state>>

\* FluxPowerStateSelect.async_select_option up to its await
PowerSelectOption(option) ==
  /\ CanCall("power")
  /\ IF option \in DOMAIN name_to_state
     THEN Start([NewCall("power", option) EXCEPT
                   !.pc = "awaiting",
                   !.setter = <<[param |-> "channel1",
                                 value |-> name_to_state[option]]>>])
     ELSE Start([NewCall("power", option) EXCEPT
                   !.pc = "failed", !.raised = "KeyError"])
  /\ UNCHANGED <<setup, device, added, name_to_state, attr_options,
                 attr_current_option, ha_state>>

\* PowerSelectResume writing the state before refreshing the option
PowerSelectResume_WriteFirst(c) ==
  /\ c.entity = "power" /\ c.pc = "resumed"
  /\ ha_state' = attr_current_option
  /\ attr_current_option' = OptionFromDevice(device)
  /\ Move(c, [c EXCEPT !.pc = "done",
                       !.writes = Append(@, attr_current_option)])
  /\ UNCHANGED <<setup, device, added, name_to_state, attr_options>>

\* FluxPowerStateSelect.async_select_option after its await
PowerSelectResume(c) ==
  /\ c.entity = "power" /\ c.pc = "resumed"
  /\ attr_current_option' = OptionFromDevice(device)
  /\ ha_state' = attr_current_option'
  /\ Move(c, [c EXCEPT !.pc = "done",
                       !.writes = Append(@, attr_current_option')])
  /\ UNCHANGED <<setup, device, added, name_to_state, attr_options>>

\* async_select_option of a FluxConfigSelect up to its await
ConfigSelectOption(entity, param, option) ==
  /\ CanCall(entity)
  /\ Start([NewCall(entity, option) EXCEPT
              !.pc = "awaiting",
              !.setter = <<[param |-> param, value |-> option]>>])
  /\ UNCHANGED <<setup, device, added, name_to_state, attr_options,
                 attr_current_option, ha_state>>

\* WiringsSelectOption passing the option as the IC type
WiringsSelectOption_ic_type(option) ==
  ConfigSelectOption("wiring", "ic_type", option)

\* OperatingModesSelectOption requesting the reload before the setter call
OperatingModesSelectOption_ReloadFirst(option) ==
  /\ CanCall("operating_mode")
  /\ Start([NewCall("operating_mode", option) EXCEPT
              !.pc = "awaiting",
              !.reloads = <<EntryId>>,
              !.setter = <<[param |-> "operating_mode", value |-> option]>>])
  /\ UNCHANGED <<setup, device, added, name_to_state, attr_options,
                 attr_current_option, ha_state>>

ICTypeSelectOption(option) == ConfigSelectOption("ic_type", "ic_type", option)
WiringsSelectOption(option) == ConfigSelectOption("wiring", "wiring", option)
OperatingModesSelectOption(option) ==
  ConfigSelectOption("operating_mode", "operating_mode", option)

\* ICTypeSelectResume requesting a reload as the operating-mode entity does
ICTypeSelectResume_Reload(c) ==
  /\ c.entity = "ic_type" /\ c.pc = "resumed"
  /\ Move(c, [c EXCEPT !.pc = "done", !.reloads = Append(@, EntryId)])
  /\ UNCHANGED <<setup, device, added, name_to_state, attr_options,
                 attr_current_option, ha_state>>

\* FluxICTypeSelect.async_select_option after its await: it returns
ICTypeSelectResume(c) ==
  /\ c.entity = "ic_type" /\ c.pc = "resumed"
  /\ Move(c, [c EXCEPT !.pc = "done"])
  /\ UNCHANGED <<setup, device, added, name_to_state, attr_options,
                 attr_current_option, ha_state>>

\* FluxWiringsSelect.async_select_option after its await: it returns
WiringsSelectResume(c) ==
  /\ c.entity = "wiring" /\ c.pc = "resumed"
  /\ Move(c, [c EXCEPT !.pc = "done"])
  /\ UNCHANGED <<setup, device, added, name_to_state, attr_options,
                 attr_current_option, ha_state>>

\* FluxOperatingModesSelect.async_select_option after its await
OperatingModesSelectResume(c) ==
  /\ c.entity = "operating_mode" /\ c.pc = "resumed"
  /\ Move(c, [c EXCEPT !.pc = "done", !.reloads = Append(@, EntryId)])
  /\ UNCHANGED <<setup, device, added, name_to_state, attr_options,
                 attr_current_option, ha_state>>

\* the caller takes the result of a finished coroutine
Return(c) ==
  /\ c.pc \in {"done", "failed"}
  /\ calls' = calls (-) SetToBag({c})
  /\ UNCHANGED selected
  /\ UNCHANGED <<setup, device, added, name_to_state, attr_options,
                 attr_current_option, ha_state>>

(***************************************************************************)
(* The device client                                                       *)
(***************************************************************************)
\* the device state after the setter call s has taken effect
Applied(d, s) ==
  CASE s.param = "channel1"       -> [d EXCEPT !.channel1 = s.value]
    [] s.param = "ic_type"        -> [d EXCEPT !.ic_type = s.value]
    [] s.param = "wiring"         -> [d EXCEPT !.wiring = s.value]
    [] s.param = "operating_mode" -> [d EXCEPT !.operating_mode = s.value]

\* async_set_power_restore / async_set_device_config completes
SetterDone(c) ==
  /\ c.pc = "awaiting"
  /\ device' = Applied(device, c.setter[Len(c.setter)])
  /\ Move(c, [c EXCEPT !.pc = "resumed", !.client = "ok"])
  /\ UNCHANGED <<setup, added, name_to_state, attr_options,
                 attr_current_option, ha_state>>

\* SetterFail with the exception caught and the coroutine carrying on
SetterFail_Swallowed(c) ==
  /\ c.pc = "awaiting"
  /\ Move(c, [c EXCEPT !.pc = "resumed", !.client = "DeviceError"])
  /\ UNCHANGED <<setup, device, added, name_to_state, attr_options,
                 attr_current_option, ha_state>>

\* async_set_power_restore / async_set_device_config raises
SetterFail(c) ==
  /\ c.pc = "awaiting"
  /\ Move(c, [c EXCEPT !.pc = "failed", !.client = "DeviceError",
                       !.raised = "DeviceError"])
  /\ UNCHANGED <<setup, device, added, name_to_state, attr_options,
                 attr_current_option, ha_state>>

\* the values the device client can report for field f of device d
Reportable(d, f) ==
  CASE f = "channel1"       -> IF d.device_type = "Switch" THEN Members ELSE {"None"}
    [] f = "ic_type"        -> Current(d.ic_types)
    [] f = "wiring"         -> Current(d.wirings)
    [] f = "operating_mode" -> Current(d.operating_modes)

\* the device's state changes without a selection (a report from the device)
DeviceReport ==
  /\ \E f \in {"channel1", "ic_type", "wiring", "operating_mode"} :
       \E v \in Reportable(device, f) :
         /\ v # device[f]
         /\ device' = [device EXCEPT ![f] = v]
  /\ UNCHANGED <<setup, added, name_to_state, attr_options,
                 attr_current_option, ha_state, calls, selected>>

Next ==
  \/ async_setup_entry
  \/ \E option \in PowerInputs : PowerSelectOption(option)
  \/ \E option \in Elems(ICTypeOptions) : ICTypeSelectOption(option)
  \/ \E option \in Elems(WiringsOptions) : WiringsSelectOption(option)
  \/ \E option \in Elems(OperatingModesOptions) : OperatingModesSelectOption(option)
  \/ \E c \in BagToSet(calls) : PowerSelectResume(c)
  \/ \E c \in BagToSet(calls) : ICTypeSelectResume(c)
  \/ \E c \in BagToSet(calls) : WiringsSelectResume(c)
  \/ \E c \in BagToSet(calls) : OperatingModesSelectResume(c)
  \/ \E c \in BagToSet(calls) : SetterDone(c)
  \/ \E c \in BagToSet(calls) : SetterFail(c)
  \/ \E c \in BagToSet(calls) : Return(c)
  \/ DeviceReport

Spec == Init /\ [][Next]_vars

\* async_setup_entry on every device the client can be
NextSetup ==
  \/ async_setup_entry
  \/ DeviceReport

SpecSetup == InitSetup /\ [][NextSetup]_vars

(***************************************************************************)
(* Properties                                                              *)
(***************************************************************************)
CallSet == BagToSet(calls)

\* in this step the coroutine record d took up its position
Came(d) == CopiesIn(d, calls') > CopiesIn(d, calls)

AlwaysOn == <<"A","l","w","a","y","s"," ","O","n">>
AlwaysOff == <<"A","l","w","a","y","s"," ","O","f","f">>
LastState == <<"L","a","s","t"," ","S","t","a","t","e">>

\* C1: once the power-restore entity is constructed, looking the display name
\* of any PowerRestoreState member up in _name_to_state returns that member,
\* distinct members have distinct display names, and the options list has
\* exactly one entry per member.
C1_ReverseLookup ==
  "power" \in Registered =>
    /\ \A m \in Members :
         /\ DisplayName(m) \in DOMAIN name_to_state
         /\ name_to_state[DisplayName(m)] = m
    /\ \A m, n \in Members : m # n => DisplayName(m) # DisplayName(n)
    /\ Len(attr_options) = Cardinality(Members)
    /\ Elems(attr_options) = {DisplayName(m) : m \in Members}

C1_Witness ==
  /\ "power" \in Registered
  /\ attr_options = <<AlwaysOff, AlwaysOn, LastState>>
  /\ name_to_state[AlwaysOn] = "ALWAYS_ON"
  /\ name_to_state[LastState] = "LAST_STATE"

\* the setter call a selection on entity e with option o is to issue
Expected(c) ==
  IF c.entity = "power"
  THEN [param |-> "channel1", value |-> name_to_state[c.option]]
  ELSE [param |-> c.entity, value |-> c.option]

\* C2 (as claimed): every async_select_option call, on any of the four
\* entities and with any option, has issued exactly one setter call, carrying
\* the chosen option under the entity's own parameter.
C2_EveryCallOneSetter ==
  \A c \in CallSet : Len(c.setter) = 1 /\ c.setter[1] = Expected(c)

\* C2 (amended): every async_select_option call whose option is one of the
\* entity's options has issued exactly one setter call, carrying the chosen
\* option under the entity's own parameter (channel1 = the member for the
\* option, ic_type, wiring or operating_mode = the option), and no other.
C2_ListedOptionOneSetter ==
  \A c \in CallSet :
    (c.entity = "power" => c.option \in Elems(attr_options)) =>
      c.setter = <<Expected(c)>>

C2_Witness ==
  /\ \E c \in CallSet :
       /\ c.entity = "power" /\ c.pc = "done" /\ c.option = AlwaysOn
       /\ c.setter = <<[param |-> "channel1", value |-> "ALWAYS_ON"]>>
  /\ \E c \in CallSet :
       /\ c.entity = "wiring" /\ c.pc = "done"
       /\ c.setter = <<[param |-> "wiring", value |-> Wirings[2]]>>

\* C3: whenever a power-restore selection completes, the entity's current
\* option is then the display name of the device's channel-1 state of that
\* moment, and the state the call writes to the host is that refreshed option.
C3_RefreshedOnCompletion ==
  [][\A d \in BagToSet(calls') :
       (d.entity = "power" /\ d.pc = "done" /\ Came(d)) =>
         /\ attr_current_option' = DisplayName(device'.channel1)
         /\ ha_state' = attr_current_option'
         /\ d.writes = <<attr_current_option'>>]_vars

\* a selection has completed while another one on the same entity is still
\* running, and it reports the device's state, which is not the option chosen
C3_Witness ==
  \E c, d \in CallSet :
    /\ c.entity = "power" /\ c.pc = "done"
    /\ d.entity = "power" /\ d.pc \in {"awaiting", "resumed"}
    /\ c.writes = <<attr_current_option>>
    /\ c.option # attr_current_option
    /\ attr_current_option = DisplayName(device.channel1)
    /\ ha_state = attr_current_option

\* C4: a completed operating-mode selection has requested exactly one reload,
\* of the coordinator's entry, after its setter call completed; a selection
\* that has not completed has requested none.
C4_ReloadOnceAfterSetter ==
  \A c \in CallSet :
    c.entity = "operating_mode" =>
      /\ c.pc = "done" => (c.reloads = <<EntryId>> /\ c.client = "ok")
      /\ c.pc # "done" => c.reloads = <<>>

C4_Witness ==
  \E c \in CallSet :
    /\ c.entity = "operating_mode" /\ c.pc = "done"
    /\ c.reloads = <<EntryId>>
    /\ device.operating_mode = c.option

\* C5: a selection whose setter call raised has failed with that same
\* exception and has written no state and requested no reload; the step in
\* which the setter raises leaves the cached current option and the written
\* state as they were.
C5_FailureSkipsFollowUp ==
  [][/\ \A d \in BagToSet(calls') :
          d.client = "DeviceError" =>
            /\ d.pc = "failed" /\ d.raised = d.client
            /\ d.writes = <<>> /\ d.reloads = <<>>
     /\ (\E d \in BagToSet(calls') : d.client = "DeviceError" /\ Came(d)) =>
          UNCHANGED <<attr_current_option, ha_state>>]_vars

C5_Witness ==
  /\ \E c \in CallSet :
       c.entity = "power" /\ c.pc = "failed" /\ c.raised = "DeviceError"
  /\ \E c \in CallSet :
       c.entity = "operating_mode" /\ c.pc = "failed" /\ c.raised = "DeviceError"
  /\ ha_state = None

\* C6: each of the IC-type, wiring and operating-mode entities reports the
\* device client's current list as its options and the device client's
\* current value as its current option.
C6_ConfigMirrorsDevice ==
  /\ "ic_type" \in Registered =>
       ICTypeOptions = device.ic_types /\ ICTypeCurrentOption = device.ic_type
  /\ "wiring" \in Registered =>
       WiringsOptions = device.wirings /\ WiringsCurrentOption = device.wiring
  /\ "operating_mode" \in Registered =>
       /\ OperatingModesOptions = device.operating_modes
       /\ OperatingModesCurrentOption = device.operating_mode

\* the device's values have changed and no selection has ever been made
C6_Witness ==
  /\ ~selected
  /\ {"ic_type", "wiring", "operating_mode"} \subseteq Registered
  /\ ICTypeCurrentOption = ICTypes[2]
  /\ WiringsCurrentOption = Wirings[2]
  /\ OperatingModesCurrentOption = OperatingModes[2]

\* C7 (as claimed): once constructed, the power-restore entity's current
\* option is always the display name of the device's current channel-1 state.
C7_AlwaysMirrors ==
  "power" \in Registered => attr_current_option = DisplayName(device.channel1)

\* the entity is constructed, or a selection on it completes, in this step
Refreshed ==
  \/ setup = "start" /\ "power" \in Registered'
  \/ \E d \in BagToSet(calls') : d.entity = "power" /\ d.pc = "done" /\ Came(d)

\* C7 (amended): the power-restore entity's current option changes only when
\* the entity is constructed or a selection on it completes, and it is then
\* the display name of the device's channel-1 state of that moment; any other
\* change of the device's state leaves it as it was.
C7_MirrorsAtRefresh ==
  [][/\ attr_current_option' # attr_current_option => Refreshed
     /\ Refreshed => attr_current_option' = DisplayName(device'.channel1)]_vars

\* the device's state has changed without a selection and the entity still
\* reports the state it read at construction
C7_Witness ==
  /\ "power" \in Registered
  /\ ~selected
  /\ attr_current_option = AlwaysOff
  /\ device.channel1 = "LAST_STATE"

\* C8: no selection on the IC-type, wiring or power-restore entity requests a
\* reload, and the steps of an IC-type or wiring selection change nothing
\* besides the one setter call: no state is written, and the power-restore
\* entity's fields, the device and the registered entities stay as they were.
C8_OnlyOperatingModeReloads ==
  [][\A d \in BagToSet(calls') :
       /\ d.entity # "operating_mode" => d.reloads = <<>>
       /\ d.entity \in {"ic_type", "wiring"} =>
            /\ d.writes = <<>>
            /\ Len(d.setter) = 1
            /\ (Came(d) /\ d.pc \in {"awaiting", "done"}) =>
                 UNCHANGED <<setup, device, added, name_to_state, attr_options,
                             attr_current_option, ha_state>>]_vars

C8_Witness ==
  /\ \E c \in CallSet : c.entity = "ic_type" /\ c.pc = "done" /\ c.reloads = <<>>
  /\ \E c \in CallSet : c.entity = "power" /\ c.pc = "done" /\ c.reloads = <<>>

\* C9: after async_setup_entry the registered entities are the power-restore
\* entity iff the device is a Switch and the operating-mode, wiring and
\* IC-type entities iff the device reports a non-empty list of each, every
\* kind at most once, passed in one async_add_entities call; no call is made
\* when no entity qualifies, or before the setup has run.
C9_SetupRegisters ==
  LET qualifying ==
        {e \in {"power"} : device.device_type = "Switch"}
        \cup {e \in {"operating_mode"} : device.operating_modes # <<>>}
        \cup {e \in {"wiring"} : device.wirings # <<>>}
        \cup {e \in {"ic_type"} : device.ic_types # <<>>}
  IN /\ setup = "start" => added = <<>>
     /\ (setup = "done" /\ qualifying = {}) => added = <<>>
     /\ (setup = "done" /\ qualifying # {}) =>
          /\ Len(added) = 1
          /\ Elems(added[1]) = qualifying
          /\ Len(added[1]) = Cardinality(qualifying)

C9_Witness ==
  /\ setup = "done"
  /\ device.device_type = "Switch"
  /\ device.operating_modes = <<>> /\ device.ic_types = <<>>
  /\ added = << <<"power", "wiring">> >>

\* C10: a power-restore selection with a string that is not one of the
\* entity's options fails on the lookup: it has issued no setter call and
\* written no state, and the step of the call leaves the device, the cached
\* current option and the written state as they were.
C10_UnknownOptionFailsEarly ==
  [][\A d \in BagToSet(calls') :
       (d.entity = "power" /\ d.option \notin Elems(attr_options')) =>
         /\ d.pc = "failed" /\ d.raised = "KeyError"
         /\ d.setter = <<>> /\ d.writes = <<>> /\ d.client = ""
         /\ Came(d) => UNCHANGED <<device, attr_current_option, ha_state>>]_vars

C10_Witness ==
  \E c \in CallSet :
    /\ c.entity = "power" /\ c.option = MemberName("ALWAYS_ON")
    /\ c.raised = "KeyError" /\ c.setter = <<>>

====
